---- MODULE Spec2Model ----
(***************************************************************************)
(* Model of helita/sim/rh15d_vis.py: the Populations and SourceFunction    *)
(* notebook viewers and the optical-depth locator __get_tau_levels.        *)
(*                                                                         *)
(* Numbers.  Python floats are modelled by exact rationals <<n, d>> in     *)
(* lowest terms.  height_scale is held in units of 1e5 m and chi in units  *)
(* of 1e-7 m^-1, so chi * dh is in units of 1/100 and the trapezoid sums   *)
(* (chi[i] + chi[i+1]) * dh are optical depths in units of 1/200.  In      *)
(* these units the division by 1e6 (metres to Mm) is a division by 10.     *)
(* Arrays are functions over 0 .. n-1, as in the source.                   *)
(***************************************************************************)
EXTENDS Integers, Sequences, FiniteSets, TLC

VARIABLES rhobj, viewer, atom, quantity, y_log, x, y, level, levelRange,
          wavelength, ax, raised, tauCase, tauResult

vars == <<rhobj, viewer, atom, quantity, y_log, x, y, level, levelRange,
          wavelength, ax, raised, tauCase, tauResult>>

(* ------------------------------ bounds -------------------------------- *)
MaxNX == 2
MaxNY == 2
MaxNWAVE == 2
NZ == 4
MaxN == 11
MaxDz == 2
MaxC == 4

None == "None"

(* ---------------------------- rationals ------------------------------- *)
Abs(n) == IF n < 0 THEN -n ELSE n

RECURSIVE GCD(_, _)
GCD(a, b) == IF b = 0 THEN a ELSE GCD(b, a % b)

Rat(n, d) ==
    LET s == IF d < 0 THEN -1 ELSE 1
        g == GCD(Abs(n), Abs(d))
    IN  <<(s * n) \div g, (s * d) \div g>>

RatInt(n) == <<n, 1>>
RatAdd(p, q) == Rat(p[1] * q[2] + q[1] * p[2], p[2] * q[2])
RatSub(p, q) == Rat(p[1] * q[2] - q[1] * p[2], p[2] * q[2])
RatMul(p, q) == Rat(p[1] * q[1], p[2] * q[2])
RatDiv(p, q) == Rat(p[1] * q[2], p[2] * q[1])
RatLe(p, q) == p[1] * q[2] <= q[1] * p[2]
RatAbs(p) == <<Abs(p[1]), p[2]>>

(* np.around: round to the nearest integer, ties to the even one *)
Around(p) ==
    LET f == p[1] \div p[2]
        r == 2 * (p[1] - f * p[2])
    IN  IF r < p[2] THEN f
        ELSE IF r > p[2] THEN f + 1
        ELSE IF f % 2 = 0 THEN f ELSE f + 1

(* ------------------- the optical-depth locator ------------------------ *)
TAU_LEVELS == <<60, 200, 600>>

RECURSIVE Pow(_, _)
Pow(b, e) == IF e = 0 THEN 1 ELSE b * Pow(b, e - 1)

RECURSIVE cumtrapzAt(_, _, _)
cumtrapzAt(yv, xv, k) ==
    IF k < 0 THEN 0
    ELSE cumtrapzAt(yv, xv, k - 1) + (yv[k] + yv[k + 1]) * (xv[k + 1] - xv[k])

(* scipy cumtrapz without initial=: n-1 partial sums, the leading 0 left out *)
cumtrapz(yv, xv, n) == [k \in 0 .. n - 2 |-> cumtrapzAt(yv, xv, k)]

Between(a, q, b) ==
    \/ RatLe(RatInt(a), q) /\ RatLe(q, RatInt(b))
    \/ RatLe(RatInt(b), q) /\ RatLe(q, RatInt(a))

(* scipy interp1d(xs, ys)(q), linear, bounds_error=True; xs strictly        *)
(* monotonic over 0 .. n-1 (interp1d sorts a decreasing xs itself).  The   *)
(* result is [err, v]: err names the exception raised, if any               *)
interp1d(xs, ys, n, q) ==
    IF \A i \in 0 .. n - 2 : ~Between(xs[i], q, xs[i + 1])
    THEN [err |-> "ValueError", v |-> RatInt(0)]
    ELSE LET i == CHOOSE j \in 0 .. n - 2 :
                     /\ Between(xs[j], q, xs[j + 1])
                     /\ \A m \in 0 .. j - 1 : ~Between(xs[m], q, xs[m + 1])
         IN  [err |-> None,
              v |-> RatAdd(RatInt(ys[i]),
                           RatDiv(RatMul(RatSub(q, RatInt(xs[i])),
                                         RatInt(ys[i + 1] - ys[i])),
                                  RatInt(xs[i + 1] - xs[i])))]

(* body of __get_tau_levels for one column: h heights, chi absorption,     *)
(* n grid points; returns the heights in Mm and the closest grid indices   *)
tau_levels(h, chiv, n) ==
    LET mh  == [k \in 0 .. n - 1 |-> -h[k]]
        tau == cumtrapz(chiv, mh, n)
        h1  == [k \in 0 .. n - 2 |-> h[k + 1]]
        ht  == [i \in 1 .. 3 |-> interp1d(tau, h1, n - 1, RatInt(TAU_LEVELS[i]))]
    IN  IF \E i \in 1 .. 3 : ht[i].err # None
        THEN [err |-> "ValueError", tau |-> <<>>, idx |-> <<>>]
        ELSE [err |-> None,
              tau |-> [i \in 1 .. 3 |-> RatDiv(ht[i].v, RatInt(10))],
              idx |-> [i \in 1 .. 3 |->
                         Around(interp1d(h, [k \in 0 .. n - 1 |-> k], n, ht[i].v).v)]]

(* --------------------- Python strings as sequences -------------------- *)
Lowers == <<"a","b","c","d","e","f","g","h","i","j","k","l","m",
            "n","o","p","q","r","s","t","u","v","w","x","y","z">>
Uppers == <<"A","B","C","D","E","F","G","H","I","J","K","L","M",
            "N","O","P","Q","R","S","T","U","V","W","X","Y","Z">>

IsLower(c) == \E i \in 1 .. 26 : Lowers[i] = c
IsUpper(c) == \E i \in 1 .. 26 : Uppers[i] = c
IsCased(c) == IsLower(c) \/ IsUpper(c)
ToUpper(c) == IF IsLower(c) THEN Uppers[CHOOSE i \in 1 .. 26 : Lowers[i] = c] ELSE c
ToLower(c) == IF IsUpper(c) THEN Lowers[CHOOSE i \in 1 .. 26 : Uppers[i] = c] ELSE c

(* str.title(): first cased character of every run upper, the rest lower *)
title_(s) ==
    [i \in 1 .. Len(s) |->
        IF i = 1 \/ ~IsCased(s[i - 1]) THEN ToUpper(s[i]) ELSE ToLower(s[i])]

(* str.split(sep) for a one-character separator *)
RECURSIVE split(_, _)
split(s, sep) ==
    IF \A i \in 1 .. Len(s) : s[i] # sep THEN <<s>>
    ELSE LET i == CHOOSE j \in 1 .. Len(s) :
                     s[j] = sep /\ \A m \in 1 .. j - 1 : s[m] # sep
         IN  <<SubSeq(s, 1, i - 1)>> \o split(SubSeq(s, i + 1, Len(s)), sep)

(* a[:n] *)
Prefix(s, n) == SubSeq(s, 1, IF Len(s) < n THEN Len(s) ELSE n)

(* ----------------------- the result object ---------------------------- *)
(* attribute names of the RH 1.5D result object; dir() lists them sorted  *)
atmos   == <<"a","t","m","o","s">>
atom_CA == <<"a","t","o","m","_","C","A">>
atom_H  == <<"a","t","o","m","_","H">>
ray     == <<"r","a","y">>

AtomPool == <<atom_CA, atom_H>>

RECURSIVE Pick(_, _)
Pick(pool, S) ==
    IF pool = <<>> THEN <<>>
    ELSE (IF Head(pool) \in S THEN <<Head(pool)>> ELSE <<>>) \o Pick(Tail(pool), S)

(* the result objects the viewers are constructed on: at least one atom,  *)
(* an (NX, NY, NZ) atmosphere and NWAVE selected wavelengths              *)
ResultObjects ==
    { [dir |-> <<atmos>> \o Pick(AtomPool, S) \o <<ray>>,
       NX |-> nx, NY |-> ny, NWAVE |-> nw] :
         S \in (SUBSET {atom_CA, atom_H}) \ {{}},
         nx \in 1 .. MaxNX, ny \in 1 .. MaxNY, nw \in 1 .. MaxNWAVE }

AtomIx(a) == CHOOSE i \in 1 .. Len(AtomPool) : AtomPool[i] = a

nlevel(a) == IF a = atom_CA THEN 5 ELSE 2

InShape(obj, xx, yy) == xx \in 0 .. obj.NX - 1 /\ yy \in 0 .. obj.NY - 1

(* getattr(rhobj, a).populations[l, xx, yy] and populations_LTE[l, xx, yy] *)
populations(a, l, xx, yy) ==
    [z \in 0 .. NZ - 1 |-> 1000 * AtomIx(a) + 100 * (l + 1) + 30 * xx + 10 * yy + z]
populations_LTE(a, l, xx, yy) ==
    [z \in 0 .. NZ - 1 |-> 7 + AtomIx(a) + 2 * l + 3 * xx + 5 * yy + 11 * z]

(* atmos.height_scale[xx, yy], outermost point first (units of 1e5 m) *)
height_scale(xx, yy) == [z \in 0 .. NZ - 1 |-> (NZ - 1 - z) * (2 + xx + yy)]
temperature(xx, yy) == [z \in 0 .. NZ - 1 |-> 4000 + 1000 * z + 100 * xx + 300 * yy]

(* ray.chi[xx, yy, :, w] (units of 1e-7 m^-1): wavelength 0 crosses all    *)
(* three levels inside the grid, wavelength 1 is optically thin (tau < 3) *)
(* in column (0, 0), the others reach tau = 0.3 before the second point    *)
chi(xx, yy, w) ==
    [z \in 0 .. NZ - 1 |-> (IF w = 0 THEN 3 ELSE IF w = 1 THEN 2 ELSE 8) * Pow(4, z)]
source_function(xx, yy, w) ==
    [z \in 0 .. NZ - 1 |-> 10 * (z + 1) + 100 * xx + 300 * yy + 1000 * (w + 1)]
Jlambda(xx, yy, w) ==
    [z \in 0 .. NZ - 1 |-> 5 + 10 * (z + 1) + 100 * xx + 300 * yy + 1000 * (w + 1)]
(* ray.wavelength_selected[w] in units of 1e-4 nm *)
wavelength_selected(w) == 5000001 + 10024 * w

(* utils.utilsmath.planck(wave, temp, units='Hz'), one value per depth *)
planck(wave, temp) == [z \in 0 .. NZ - 1 |-> <<"planck", wave, temp[z]>>]

(* "%.3f nm" % w: three decimals, i.e. thousandths of a nm, rounded *)
FormatNm(w) == <<(w + 5) \div 10, "nm">>

(* height / 1e6 *)
InMm(h) == [z \in DOMAIN h |-> Rat(h[z], 10)]

(* ---------------------------- controls -------------------------------- *)
fixed(v) == [kind |-> "fixed", min |-> v, max |-> v]
slider(lo, hi) == [kind |-> "slider", min |-> lo, max |-> hi]
Values(w) == w.min .. w.max

QUANTS == <<"Populations", "LTE Populations", "Departure coefficients">>

xslider(NX) == IF NX = 1 THEN fixed(0) ELSE slider(0, NX - 1)
yslider(NY) == IF NY = 1 THEN fixed(0) ELSE slider(0, NY - 1)

(* Populations.__init__: the attributes whose name starts with atom_ *)
atoms(obj) == SelectSeq(obj.dir, LAMBDA a : Prefix(a, 5) = <<"a","t","o","m","_">>)

(* ATOMS = {a.split('_')[1].title(): a for a in self.atoms} *)
ATOMS(obj) ==
    LET as == atoms(obj)
        lab(a) == title_(split(a, "_")[2])
    IN  [l \in {lab(as[i]) : i \in 1 .. Len(as)} |->
            LET last == CHOOSE i \in 1 .. Len(as) :
                            lab(as[i]) = l /\ \A j \in i + 1 .. Len(as) : lab(as[j]) # l
            IN  as[last]]

(* the controls interact() builds for _pop_update and for _sf_update *)
PopControls(obj) ==
    [atom |-> ATOMS(obj), quantity |-> QUANTS,
     x |-> xslider(obj.NX), y |-> xslider(obj.NX)]
SfControls(obj) ==
    [wavelength |-> slider(0, obj.NWAVE),
     x |-> xslider(obj.NX), y |-> xslider(obj.NX)]
LevelControl(a) == slider(1, nlevel(a))

(* ------------------------ Populations viewer -------------------------- *)
DataLim(lines) == [i \in 1 .. Len(lines) |-> lines[i].ydata]

(* a bug that would draw a new curve on every update *)
plot_again(lines, i, v) ==
    Append(lines, [lines[i] EXCEPT !.id = Len(lines) + Len(lines) + 1, !.ydata = v])

(* Line2D.set_ydata on ax.lines[i]: the curve object stays, its y-data changes *)
set_ydata(lines, i, v) == [lines EXCEPT ![i].ydata = v]

(* _pop_plot(atom): the axes after the initial plot *)
pop_plot(a) ==
    LET pop_plot_line == [id |-> 1, label |-> None,
                          xdata |-> InMm(height_scale(0, 0)),
                          ydata |-> populations(a, 0, 0, 0)]
    IN  [lines |-> <<pop_plot_line>>, texts |-> <<>>,
         xlabel |-> "Height (Mm)", ylabel |-> <<"Populations">>,
         title |-> <<"Level", 1>>, yscale |-> "linear",
         viewlim |-> DataLim(<<pop_plot_line>>)]

(* _pop_update_level(level) in the closure (atom, quantity, y_log, x, y): *)
(* the axes it leaves and the exception it raises, if any                 *)
pop_update_level(obj, axv, a, q, lg, xx, yy, lv) ==
    IF ~(lv - 1 \in 0 .. nlevel(a) - 1 /\ InShape(obj, xx, yy))
    THEN [ax |-> axv, raised |-> "IndexError"]
    ELSE LET n     == populations(a, lv - 1, xx, yy)
             nstar == populations_LTE(a, lv - 1, xx, yy)
             tmp   == IF q = "Departure coefficients"
                      THEN [z \in 0 .. NZ - 1 |-> Rat(n[z], nstar[z])]
                      ELSE IF q = "Populations" THEN n ELSE nstar
             lab   == IF q = "Departure coefficients"
                      THEN <<q, " (n / n*)">> ELSE <<q, " (m$^{-3}$)">>
             ls    == set_ydata(axv.lines, 1, tmp)
         IN  [ax |-> [axv EXCEPT !.lines = ls, !.ylabel = lab,
                                 !.viewlim = DataLim(ls),
                                 !.title = <<"Level", lv, "x", xx, "y", yy>>,
                                 !.yscale = IF lg THEN "log" ELSE "linear"],
              raised |-> None]

(* a bug that would bound the level control by the first atom's NLEVEL *)
pop_update_firstAtomLevels(obj, axv, a, q, lg, xx, yy) ==
    LET r == pop_update_level(obj, axv, a, q, lg, xx, yy, 1)
    IN  [ax |-> r.ax, raised |-> r.raised, level |-> 1,
         levelRange |-> LevelControl(atoms(obj)[1])]

(* _pop_update(atom, quantity, y_log, x, y): registers a new level control *)
(* bounded by the atom's nlevel, which starts at level 1 and is called once *)
pop_update(obj, axv, a, q, lg, xx, yy) ==
    LET r == pop_update_level(obj, axv, a, q, lg, xx, yy, 1)
    IN  [ax |-> r.ax, raised |-> r.raised, level |-> 1,
         levelRange |-> LevelControl(a)]

(* ---------------------- SourceFunction viewer ------------------------- *)
(* a bug that would take the heights of column (0, 0), as the curves do *)
get_tau_levels_column00(xx, yy, wave) ==
    tau_levels(height_scale(0, 0), chi(xx, yy, wave), NZ)

get_tau_levels(xx, yy, wave) == tau_levels(height_scale(xx, yy), chi(xx, yy, wave), NZ)

TauText(i) == <<"tau=", TAU_LEVELS[i]>>

(* yval / (0.2 - 0.03 * i), i counted from 0 *)
LabelOffset(yval, i) == Rat(100 * yval, 20 - 3 * i)

(* _sf_plot(): the axes after the initial plot of column (0, 0), wavelength 0 *)
sf_plot ==
    LET sf     == source_function(0, 0, 0)
        height == InMm(height_scale(0, 0))
        t      == get_tau_levels(0, 0, 0)
        ls     == << [id |-> 1, label |-> "S_total", xdata |-> height, ydata |-> sf],
                     [id |-> 2, label |-> "J", xdata |-> height,
                      ydata |-> Jlambda(0, 0, 0)],
                     [id |-> 3, label |-> "B_Planck", xdata |-> height,
                      ydata |-> planck(wavelength_selected(0), temperature(0, 0))] >>
    IN  [lines |-> ls,
         texts |-> [i \in 1 .. 3 |->
                      [id |-> 3 + i, s |-> TauText(i),
                       xy |-> <<t.tau[i], RatInt(sf[t.idx[i]])>>,
                       position |-> <<t.tau[i], LabelOffset(sf[t.idx[i]], i - 1)>>]],
         xlabel |-> "Height (Mm)", ylabel |-> <<"W m$^{-2}$ Hz$^{-1}$ sr$^{-1}$">>,
         title |-> FormatNm(wavelength_selected(0)), yscale |-> "log",
         viewlim |-> DataLim(ls)]

(* a variant that would locate the levels before it touches the plot, so  *)
(* that a raise leaves the plot as it was                                  *)
sf_update_locateFirst(obj, axv, w, lg, xx, yy) ==
    IF ~(w \in 0 .. obj.NWAVE - 1 /\ InShape(obj, xx, yy))
    THEN [ax |-> axv, raised |-> "IndexError"]
    ELSE LET quants == << source_function(xx, yy, w), Jlambda(xx, yy, w),
                          planck(wavelength_selected(w), temperature(xx, yy)) >>
             ls  == set_ydata(set_ydata(set_ydata(axv.lines, 1, quants[1]),
                                        2, quants[2]), 3, quants[3])
             t   == get_tau_levels(xx, yy, w)
         IN  IF t.err # None
             THEN [ax |-> axv, raised |-> t.err]
             ELSE [ax |-> [axv EXCEPT
                      !.lines = ls, !.viewlim = DataLim(ls),
                      !.title = FormatNm(wavelength_selected(w)),
                      !.texts = [i \in 1 .. Len(axv.texts) |->
                         IF i <= 3
                         THEN LET yval == source_function(xx, yy, w)[t.idx[i]]
                              IN  [axv.texts[i] EXCEPT
                                     !.xy = <<t.tau[i], RatInt(yval)>>,
                                     !.position = <<t.tau[i], LabelOffset(yval, i - 1)>>]
                         ELSE axv.texts[i]],
                      !.yscale = IF lg THEN "log" ELSE "linear"],
                   raised |-> None]

(* _sf_update(wavelength, y_log, x, y) *)
sf_update(obj, axv, w, lg, xx, yy) ==
    IF ~(w \in 0 .. obj.NWAVE - 1 /\ InShape(obj, xx, yy))
    THEN [ax |-> axv, raised |-> "IndexError"]
    ELSE LET quants == << source_function(xx, yy, w), Jlambda(xx, yy, w),
                          planck(wavelength_selected(w), temperature(xx, yy)) >>
             ls  == set_ydata(set_ydata(set_ydata(axv.lines, 1, quants[1]),
                                        2, quants[2]), 3, quants[3])
             ax1 == [axv EXCEPT !.lines = ls, !.viewlim = DataLim(ls),
                                !.title = FormatNm(wavelength_selected(w))]
             t   == get_tau_levels(xx, yy, w)
         IN  IF t.err # None
             THEN [ax |-> ax1, raised |-> t.err]
             ELSE [ax |-> [ax1 EXCEPT
                      !.texts = [i \in 1 .. Len(ax1.texts) |->
                         IF i <= 3
                         THEN LET yval == source_function(xx, yy, w)[t.idx[i]]
                              IN  [ax1.texts[i] EXCEPT
                                     !.xy = <<t.tau[i], RatInt(yval)>>,
                                     !.position = <<t.tau[i], LabelOffset(yval, i - 1)>>]
                         ELSE ax1.texts[i]],
                      !.yscale = IF lg THEN "log" ELSE "linear"],
                   raised |-> None]

(* -------------------------- construction ----------------------------- *)
NoResult == [err |-> "pending", tau |-> <<>>, idx |-> <<>>]
NoAxes == [lines |-> <<>>, texts |-> <<>>, xlabel |-> None, ylabel |-> <<>>,
           title |-> <<>>, yscale |-> None, viewlim |-> <<>>]

(* Populations(rh_object): __init__, display, and the first call interact *)
(* makes of _pop_update with the controls' initial values                  *)
InitPopulations ==
    /\ viewer = "Populations"
    /\ atom = atoms(rhobj)[1]
    /\ quantity = QUANTS[1]
    /\ y_log = FALSE
    /\ x = 0
    /\ y = 0
    /\ wavelength = None
    /\ LET r == pop_update(rhobj, pop_plot(atoms(rhobj)[1]), atom, quantity, y_log, x, y)
       IN  /\ ax = r.ax
           /\ raised = r.raised
           /\ level = r.level
           /\ levelRange = r.levelRange

(* SourceFunction(rh_object): __init__, display, first call of _sf_update *)
InitSourceFunction ==
    /\ viewer = "SourceFunction"
    /\ wavelength = 0
    /\ y_log = TRUE
    /\ x = 0
    /\ y = 0
    /\ atom = None
    /\ quantity = None
    /\ level = None
    /\ levelRange = None
    /\ LET r == sf_update(rhobj, sf_plot, wavelength, y_log, x, y)
       IN  /\ ax = r.ax
           /\ raised = r.raised

(* a viewer is constructed on any result object; what the viewer never    *)
(* reads (the wavelengths for Populations, the atoms for SourceFunction)  *)
(* is held at one value                                                   *)
Init ==
    /\ rhobj \in ResultObjects
    /\ tauCase = None
    /\ tauResult = NoResult
    /\ \/ rhobj.NWAVE = 1 /\ InitPopulations
       \/ Len(rhobj.dir) = 2 + Len(AtomPool) /\ InitSourceFunction

(* ------------------- Populations control events ----------------------- *)
PopFrame == UNCHANGED <<rhobj, viewer, wavelength, tauCase, tauResult>>

PopOuter(a, q, lg, xx, yy) ==
    LET r == pop_update(rhobj, ax, a, q, lg, xx, yy)
    IN  /\ atom' = a
        /\ quantity' = q
        /\ y_log' = lg
        /\ x' = xx
        /\ y' = yy
        /\ ax' = r.ax
        /\ raised' = r.raised
        /\ level' = r.level
        /\ levelRange' = r.levelRange
        /\ PopFrame

PopSetAtom ==
    /\ viewer = "Populations"
    /\ \E l \in DOMAIN PopControls(rhobj).atom :
          /\ PopControls(rhobj).atom[l] # atom
          /\ PopOuter(PopControls(rhobj).atom[l], quantity, y_log, x, y)

PopSetQuantity ==
    /\ viewer = "Populations"
    /\ \E i \in 1 .. Len(PopControls(rhobj).quantity) :
          /\ PopControls(rhobj).quantity[i] # quantity
          /\ PopOuter(atom, PopControls(rhobj).quantity[i], y_log, x, y)

PopToggleLog ==
    /\ viewer = "Populations"
    /\ PopOuter(atom, quantity, ~y_log, x, y)

PopSetX ==
    /\ viewer = "Populations"
    /\ PopControls(rhobj).x.kind = "slider"
    /\ \E v \in Values(PopControls(rhobj).x) \ {x} : PopOuter(atom, quantity, y_log, v, y)

PopSetY ==
    /\ viewer = "Populations"
    /\ PopControls(rhobj).y.kind = "slider"
    /\ \E v \in Values(PopControls(rhobj).y) \ {y} : PopOuter(atom, quantity, y_log, x, v)

PopSetLevel ==
    /\ viewer = "Populations"
    /\ \E v \in Values(levelRange) \ {level} :
          LET r == pop_update_level(rhobj, ax, atom, quantity, y_log, x, y, v)
          IN  /\ level' = v
              /\ ax' = r.ax
              /\ raised' = r.raised
              /\ UNCHANGED <<atom, quantity, y_log, x, y, levelRange>>
              /\ PopFrame

(* ------------------ SourceFunction control events --------------------- *)
SfEvent(w, lg, xx, yy) ==
    LET r == sf_update(rhobj, ax, w, lg, xx, yy)
    IN  /\ wavelength' = w
        /\ y_log' = lg
        /\ x' = xx
        /\ y' = yy
        /\ ax' = r.ax
        /\ raised' = r.raised
        /\ UNCHANGED <<rhobj, viewer, atom, quantity, level, levelRange,
                       tauCase, tauResult>>

SfSetWavelength ==
    /\ viewer = "SourceFunction"
    /\ \E v \in Values(SfControls(rhobj).wavelength) \ {wavelength} :
          SfEvent(v, y_log, x, y)

SfToggleLog ==
    /\ viewer = "SourceFunction"
    /\ SfEvent(wavelength, ~y_log, x, y)

SfSetX ==
    /\ viewer = "SourceFunction"
    /\ SfControls(rhobj).x.kind = "slider"
    /\ \E v \in Values(SfControls(rhobj).x) \ {x} : SfEvent(wavelength, y_log, v, y)

SfSetY ==
    /\ viewer = "SourceFunction"
    /\ SfControls(rhobj).y.kind = "slider"
    /\ \E v \in Values(SfControls(rhobj).y) \ {y} : SfEvent(wavelength, y_log, x, v)

Next ==
    \/ PopSetAtom
    \/ PopSetQuantity
    \/ PopToggleLog
    \/ PopSetX
    \/ PopSetY
    \/ PopSetLevel
    \/ SfSetWavelength
    \/ SfToggleLog
    \/ SfSetX
    \/ SfSetY

Spec == Init /\ [][Next]_vars

(* --------- the locator on constant chi over a uniform grid ------------ *)
(* chi = c (units of 1e-7 m^-1, multiples of 10) on n points spaced dz,   *)
(* outermost first: h[k] = (n - 1 - k) * dz, so the grid spans 0 .. H     *)
UniformHeight(n, dz) == [k \in 0 .. n - 1 |-> (n - 1 - k) * dz]
ConstantChi(n, c) == [k \in 0 .. n - 1 |-> c]

InitTau ==
    /\ tauCase \in [n : 2 .. MaxN, dz : 1 .. MaxDz, c : {10 * i : i \in 1 .. MaxC}]
    /\ tauResult = NoResult
    /\ rhobj = None
    /\ viewer = None
    /\ atom = None
    /\ quantity = None
    /\ y_log = None
    /\ x = None
    /\ y = None
    /\ level = None
    /\ levelRange = None
    /\ wavelength = None
    /\ ax = NoAxes
    /\ raised = None

Locate ==
    /\ tauResult = NoResult
    /\ tauResult' = tau_levels(UniformHeight(tauCase.n, tauCase.dz),
                               ConstantChi(tauCase.n, tauCase.c), tauCase.n)
    /\ UNCHANGED <<rhobj, viewer, atom, quantity, y_log, x, y, level, levelRange,
                   wavelength, ax, raised, tauCase>>

NextTau == Locate

SpecTau == InitTau /\ [][NextTau]_vars

(* ============================ properties ============================== *)
IsPop == viewer = "Populations"
IsSf == viewer = "SourceFunction"

(* the slice the populations plot is expected to show *)
IsQuantitySlice(yd, q, a, k, xx, yy) ==
    \A z \in 0 .. NZ - 1 :
       IF q = "Populations" THEN yd[z] = populations(a, k - 1, xx, yy)[z]
       ELSE IF q = "LTE Populations" THEN yd[z] = populations_LTE(a, k - 1, xx, yy)[z]
       ELSE yd[z][1] * populations_LTE(a, k - 1, xx, yy)[z]
              = yd[z][2] * populations(a, k - 1, xx, yy)[z]

(* C1: in the Populations viewer the level control ranges over exactly     *)
(* 1 .. nlevel of the selected species and the curve shows the selected    *)
(* quantity of level k at column (x, y): populations[k-1, x, y],           *)
(* populations_LTE[k-1, x, y] or their elementwise ratio.                  *)
C1_LevelRangeAndData ==
    IsPop =>
       /\ Values(levelRange) = 1 .. nlevel(atom)
       /\ level \in 1 .. nlevel(atom)
       /\ InShape(rhobj, x, y)
       /\ IsQuantitySlice(ax.lines[1].ydata, quantity, atom, level, x, y)

(* C2: in both viewers an axis of size 1 has a fixed, non-interactive      *)
(* control that resolves to index 0, for every combination of NX and NY.   *)
C2_SizeOneAxisFixed ==
    LET c == IF IsPop THEN PopControls(rhobj) ELSE SfControls(rhobj)
    IN  (IsPop \/ IsSf) =>
           /\ rhobj.NX = 1 => (c.x.kind = "fixed" /\ Values(c.x) = {0} /\ x = 0)
           /\ rhobj.NY = 1 => (c.y.kind = "fixed" /\ Values(c.y) = {0} /\ y = 0)

(* C3: every value a control can deliver is a valid index into the data    *)
(* (level in 1 .. nlevel, x in 0 .. NX-1, y in 0 .. NY-1, wavelength in    *)
(* 0 .. NWAVE-1), so no update callback indexes an array out of range.     *)
C3_ControlsWithinShape ==
    /\ IsPop =>
          /\ Values(PopControls(rhobj).x) \subseteq 0 .. rhobj.NX - 1
          /\ Values(PopControls(rhobj).y) \subseteq 0 .. rhobj.NY - 1
          /\ Values(levelRange) \subseteq 1 .. nlevel(atom)
    /\ IsSf =>
          /\ Values(SfControls(rhobj).x) \subseteq 0 .. rhobj.NX - 1
          /\ Values(SfControls(rhobj).y) \subseteq 0 .. rhobj.NY - 1
          /\ Values(SfControls(rhobj).wavelength) \subseteq 0 .. rhobj.NWAVE - 1
    /\ raised # "IndexError"

(* C4: switching the log/linear toggle changes only the y-axis scale: the  *)
(* curves' y-data, the selected level, the annotation positions and the    *)
(* title are the same after the toggle as before it.                       *)
C4_ToggleChangesOnlyScale ==
    [][ y_log' # y_log =>
          /\ DataLim(ax'.lines) = DataLim(ax.lines)
          /\ level' = level
          /\ ax'.texts = ax.texts
          /\ ax'.title = ax.title ]_vars

(* the three curves and three annotation anchors of column (xx, yy) at     *)
(* wavelength index w                                                      *)
ShowsColumn(axv, xx, yy, w) ==
    /\ axv.lines[1].ydata = source_function(xx, yy, w)
    /\ axv.lines[2].ydata = Jlambda(xx, yy, w)
    /\ axv.lines[3].ydata = planck(wavelength_selected(w), temperature(xx, yy))

AnchorsOfColumn(axv, xx, yy, w) ==
    LET t == get_tau_levels(xx, yy, w)
    IN  /\ t.err = None
        /\ \A i \in 1 .. 3 :
              axv.texts[i].xy = <<t.tau[i], RatInt(source_function(xx, yy, w)[t.idx[i]])>>

(* C5: in the SourceFunction viewer a change of x (or of y) puts the data  *)
(* of the new column (x, y) at the current wavelength into all three       *)
(* curves and all three annotation anchors, and leaves the other axis'     *)
(* selection as it was.                                                    *)
C5_ColumnChangeUpdatesAll ==
    [][ (IsSf /\ (x' # x \/ y' # y)) =>
          /\ InShape(rhobj, x', y')
          /\ wavelength' \in 0 .. rhobj.NWAVE - 1
          /\ ShowsColumn(ax', x', y', wavelength')
          /\ AnchorsOfColumn(ax', x', y', wavelength')
          /\ (x' # x => y' = y)
          /\ (y' # y => x' = x) ]_vars

(* C6: for constant chi = c on a uniform grid of n points from H down to   *)
(* 0 the optical depth at the innermost point is c * H and, for each of    *)
(* the levels 0.3, 1 and 3, the locator returns the grid index nearest to  *)
(* the height H - tau / c.                                                 *)
C6_LocatorOnConstantChi ==
    tauResult.err # "pending" =>
       LET n == tauCase.n
           h == UniformHeight(n, tauCase.dz)
           H == h[0]
           tau == cumtrapz(ConstantChi(n, tauCase.c),
                           [k \in 0 .. n - 1 |-> -h[k]], n)
       IN  /\ tau[n - 2] = 2 * tauCase.c * H
           /\ tauResult.err = None
           /\ \A i \in 1 .. 3 :
                 LET target == Rat(2 * tauCase.c * H - TAU_LEVELS[i], 2 * tauCase.c)
                     dist(k) == RatAbs(RatSub(RatInt(h[k]), target))
                 IN  /\ tauResult.idx[i] \in 0 .. n - 1
                     /\ \A k \in 0 .. n - 1 : RatLe(dist(tauResult.idx[i]), dist(k))

(* the name 'atom_' + an element identifier *)
StartsWithAtom_(a) ==
    Len(a) >= 5 /\ a[1] = "a" /\ a[2] = "t" /\ a[3] = "o" /\ a[4] = "m" /\ a[5] = "_"

LabelOf(a) ==
    IF a = atom_CA THEN <<"C", "a">>
    ELSE IF a = atom_H THEN <<"H">>
    ELSE <<>>

(* C7: the Populations viewer discovers exactly the attributes named       *)
(* atom_..., offers one title-cased label per species (atom_CA -> Ca,      *)
(* atom_H -> H) that resolves to the species' own attribute, bounds the    *)
(* level control to 1 .. nlevel of the selected species (1 .. 5 for Ca)    *)
(* and fixes x and y when NX = NY = 1.                                     *)
C7_SpeciesDropdown ==
    IsPop =>
       LET found  == {rhobj.dir[i] : i \in 1 .. Len(rhobj.dir)}
           labels == PopControls(rhobj).atom
       IN  /\ {atoms(rhobj)[i] : i \in 1 .. Len(atoms(rhobj))}
                 = {a \in found : StartsWithAtom_(a)}
           /\ DOMAIN labels = {LabelOf(a) : a \in {b \in found : StartsWithAtom_(b)}}
           /\ Cardinality(DOMAIN labels) = Len(atoms(rhobj))
           /\ \A a \in {b \in found : StartsWithAtom_(b)} : labels[LabelOf(a)] = a
           /\ \E l \in DOMAIN labels : labels[l] = atom
           /\ levelRange.kind = "slider"
           /\ Values(levelRange) = 1 .. nlevel(atom)
           /\ (atom = atom_CA => Values(levelRange) = 1 .. 5)
           /\ (rhobj.NX = 1 /\ rhobj.NY = 1) =>
                 /\ PopControls(rhobj).x.kind = "fixed"
                 /\ PopControls(rhobj).y.kind = "fixed"
                 /\ x = 0
                 /\ y = 0

(* the scenario of C7: species atom_CA and atom_H on a 1 x 1 grid, Ca      *)
(* selected and its fifth level shown                                      *)
C7_Witness ==
    /\ IsPop
    /\ rhobj.NX = 1
    /\ rhobj.NY = 1
    /\ rhobj.dir = <<atmos, atom_CA, atom_H, ray>>
    /\ atom = atom_CA
    /\ level = 5
    /\ ax.title = <<"Level", 5, "x", 0, "y", 0>>

(* C8: the plot artifacts are the objects initialization created: one      *)
(* curve in the Populations axes; in the SourceFunction axes three curves  *)
(* (source function, mean intensity, Planck) and three annotations         *)
(* (tau = 0.3, 1.0, 3.0), in that order, after any sequence of updates.    *)
C8_ArtifactsCreatedOnce ==
    /\ IsPop =>
          /\ Len(ax.lines) = 1
          /\ ax.lines[1].id = pop_plot(atom).lines[1].id
          /\ Len(ax.texts) = 0
    /\ IsSf =>
          /\ Len(ax.lines) = 3
          /\ \A i \in 1 .. 3 : ax.lines[i].id = sf_plot.lines[i].id
          /\ ax.lines[1].label = "S_total"
          /\ ax.lines[2].label = "J"
          /\ ax.lines[3].label = "B_Planck"
          /\ Len(ax.texts) = 3
          /\ \A i \in 1 .. 3 : /\ ax.texts[i].id = sf_plot.texts[i].id
                               /\ ax.texts[i].s = <<"tau=", TAU_LEVELS[i]>>
          /\ Cardinality({ax.lines[i].id : i \in 1 .. 3}
                           \cup {ax.texts[i].id : i \in 1 .. 3}) = 6

(* a SourceFunction plot that updates have moved to another column and     *)
(* wavelength                                                              *)
C8_Witness ==
    /\ IsSf
    /\ x = 1
    /\ wavelength = 1
    /\ raised = None
    /\ ShowsColumn(ax, 1, y, 1)

(* C9: the curves' x-data is the height of column (0, 0) and no update     *)
(* changes it, whereas the x-coordinates of the tau annotations are        *)
(* computed from the heights of the selected column (x, y).                *)
C9_AbscissaeColumns ==
    /\ (IsPop \/ IsSf) =>
          \A i \in 1 .. Len(ax.lines) : ax.lines[i].xdata = InMm(height_scale(0, 0))
    /\ (IsSf /\ raised = None) =>
          LET t == tau_levels(height_scale(x, y), chi(x, y, wavelength), NZ)
          IN  \A i \in 1 .. 3 : /\ ax.texts[i].xy[1] = t.tau[i]
                                /\ ax.texts[i].position[1] = t.tau[i]

(* a selected column whose heights differ from those of column (0, 0):     *)
(* the annotations are not where the heights of column (0, 0) put them     *)
C9_Witness ==
    /\ IsSf
    /\ raised = None
    /\ height_scale(x, y) # height_scale(0, 0)
    /\ LET t == tau_levels(height_scale(0, 0), chi(x, y, wavelength), NZ)
       IN  t.err = None /\ \E i \in 1 .. 3 : ax.texts[i].xy[1] # t.tau[i]
    /\ ax.lines[1].xdata = InMm(height_scale(0, 0))

(* a reference level outside the optical depths the trapezoid sums reach,  *)
(* the first of which belongs to the second grid point                     *)
LevelOutsideTau(xx, yy, w) ==
    LET h == height_scale(xx, yy)
        c == chi(xx, yy, w)
        first == (c[0] + c[1]) * (h[0] - h[1])
        cum(k) == cumtrapzAt(c, [z \in 0 .. NZ - 1 |-> -h[z]], k)
    IN  /\ cum(0) = first
        /\ \E i \in 1 .. 3 : TAU_LEVELS[i] < first \/ TAU_LEVELS[i] > cum(NZ - 2)

(* C10: a SourceFunction update that raises inside the locator has by      *)
(* then replaced the three curves' y-data, rescaled the axes and set the   *)
(* title for the new selection, while the annotations and the y-axis       *)
(* scale keep their previous values.                                       *)
C10_PartialUpdateOnRaise ==
    [][ (IsSf /\ raised' = "ValueError") =>
          /\ LevelOutsideTau(x', y', wavelength')
          /\ ShowsColumn(ax', x', y', wavelength')
          /\ ax'.viewlim = DataLim(ax'.lines)
          /\ ax'.title = FormatNm(wavelength_selected(wavelength'))
          /\ ax'.texts = ax.texts
          /\ ax'.yscale = ax.yscale ]_vars

(* after a raise in the locator: the curves and title show the optically   *)
(* thin wavelength 1 of column (0, 0), the annotations still those of      *)
(* column (1, y) and the scale not the one the toggle asks for             *)
C10_Witness ==
    /\ IsSf
    /\ raised = "ValueError"
    /\ x = 0
    /\ wavelength = 1
    /\ ShowsColumn(ax, 0, y, 1)
    /\ ax.title = FormatNm(wavelength_selected(1))
    /\ AnchorsOfColumn(ax, 1, y, 1)
    /\ y_log = FALSE
    /\ ax.yscale = "log"

====
